---- MODULE Spec2Model ----
(***************************************************************************)
(* Slice-of-Day resource adequacy (match_model/optional/                   *)
(* resource_adequacy_SOD.py): the capacity accounting, the storage         *)
(* aggregation, the position optimizer's variables and constraints, and    *)
(* the cost rollup.                                                        *)
(*                                                                         *)
(* Quantities are MW (or MWh) on an integer grid.  The round-trip          *)
(* efficiency 0.8 is the fraction RTE_NUM / RTE_DEN and the efficiency     *)
(* constraint is cross-multiplied.  A parameter table is a function whose  *)
(* DOMAIN is the set of keys the input file gave.                          *)
(***************************************************************************)
EXTENDS Integers, FiniteSets, Sequences, TLC

\* ------------------------------------------------------------------ bounds

\* capacities of the enumerated generators: 0..MaxCap
MaxCap == 2
\* an exceedance value may be raised up to MaxExc
MaxExc == 4
\* hours of the representative day in the enumerated optimizer inputs
NumHours == 2
\* storage flows the solver tries: 0..MaxFlow grid steps
MaxFlow == 5
\* procurement the solver tries: -MaxRA..MaxRA grid steps
MaxRA == 6

\* ------------------------------------------------------- program constants

\* TotalMonthlyDischarge == TotalMonthlyCharge * 0.8
RTE_NUM == 8
RTE_DEN == 10
\* storage_adders[p, mo] * 4
ADDER_HOURS == 4
\* NewRA[p, mo] * 1000 * ra_sod_cost[p, mo]
KW_PER_MW == 1000

Unset == "unset"
Empty == <<>>

VARIABLES
    \* index sets of the enclosing model
    PERIODS, MONTHS, HOURS, GENERATION_PROJECTS,
    \* per-generator parameters of the enclosing model
    gen,
    \* parameter tables declared by this module
    gen_is_ra_eligible, ra_sod_requirement, ra_sod_cost, exceedance_vals,
    nqc_vals, storage_adders,
    \* --sell_excess_RA
    sell_excess_RA,
    \* expressions, once built
    HourlyQC, EnergyNQC, StorageQC, StorageEnergySOD,
    \* decision variables (a key is in the DOMAIN once the solver set it)
    NewRA, StorageCharge, StorageDischarge, StorageState,
    \* the objective value the solver reports
    objective,
    \* candidate values the solver tries: [step, flows, ra]
    box,
    \* build / solve progress
    pc,
    \* the lookup that failed the build
    error,
    \* the exceedance key a rerun raised
    raised

sets == <<PERIODS, MONTHS, HOURS, GENERATION_PROJECTS>>
tables == <<gen, gen_is_ra_eligible, ra_sod_requirement, ra_sod_cost,
            exceedance_vals, nqc_vals, storage_adders, sell_excess_RA>>
exprs == <<HourlyQC, EnergyNQC, StorageQC, StorageEnergySOD>>
decisions == <<NewRA, StorageCharge, StorageDischarge, StorageState>>
vars == <<sets, tables, exprs, decisions, objective, box, pc, error, raised>>

\* ------------------------------------------------------ enclosing model

gen_is_variable(g) == gen[g].is_variable
gen_is_storage(g) == gen[g].is_storage
gen_tech_sod(g) == gen[g].tech
region_sod(g) == gen[g].region
resource_id_sod(g) == gen[g].rid
GenCapacity(g, p) == gen[g].cap[p]
storage_energy_to_power_ratio(g) == gen[g].ratio

\* ------------------------------------------------------------ parameters

RECURSIVE SumOver(_, _)
SumOver(S, f) ==
    IF S = {} THEN 0
    ELSE LET x == CHOOSE y \in S : TRUE IN f[x] + SumOver(S \ {x}, f)

\* a lookup names the table and the key
Lookup(name, key) == <<name, key>>
NoLookup == <<"-", <<>>>>
NoKey == <<>>

\* Param(..., default = 0): a key the file lacks reads as the default
StorageAdder(p, mo) ==
    IF <<p, mo>> \in DOMAIN storage_adders THEN storage_adders[<<p, mo>>] ELSE 0

ExcKey(g, p, mo, h) == <<p, mo, h, gen_tech_sod(g), region_sod(g)>>
NqcKey(g, p, mo) == <<p, mo, resource_id_sod(g)>>

\* The lookups of undefined Param values that building the expressions,
\* the constraints and the cost makes.
MissingEligibility ==
    { Lookup("gen_is_ra_eligible", <<g>>) :
        g \in { x \in GENERATION_PROJECTS : x \notin DOMAIN gen_is_ra_eligible } }

MissingExceedance ==
    { Lookup("exceedance_vals", k[2]) :
        k \in { y \in { <<g, ExcKey(g, x[1], x[2], x[3])>> :
                          g \in GENERATION_PROJECTS \cap DOMAIN gen_is_ra_eligible,
                          x \in PERIODS \X MONTHS \X HOURS } :
                  /\ gen_is_ra_eligible[y[1]]
                  /\ gen_is_variable(y[1])
                  /\ y[2] \notin DOMAIN exceedance_vals } }

MissingNqc ==
    { Lookup("nqc_vals", k[2]) :
        k \in { y \in { <<g, NqcKey(g, x[1], x[2])>> :
                          g \in GENERATION_PROJECTS \cap DOMAIN gen_is_ra_eligible,
                          x \in PERIODS \X MONTHS } :
                  /\ gen_is_ra_eligible[y[1]]
                  /\ ~gen_is_variable(y[1])
                  /\ gen_tech_sod(y[1]) = "Small Hydro"
                  /\ y[2] \notin DOMAIN nqc_vals } }

MissingRequirement ==
    { Lookup("ra_sod_requirement", k) :
        k \in (PERIODS \X MONTHS \X HOURS) \ DOMAIN ra_sod_requirement }

\* as if ra_sod_cost had a default
MissingCost_Defaulted == {}

MissingCost ==
    { Lookup("ra_sod_cost", k) : k \in (PERIODS \X MONTHS) \ DOMAIN ra_sod_cost }

MissingAdder == {}

Missing ==
    MissingEligibility \cup MissingExceedance \cup MissingNqc
    \cup MissingRequirement \cup MissingCost \cup MissingAdder

\* ------------------------------------------------------ capacity accounting

\* the hydro test made before the variable-generation test
HourlyQC_HydroFirst(g, p, mo, h) ==
    IF gen_is_ra_eligible[g]
    THEN IF gen_tech_sod(g) = "Small Hydro" /\ NqcKey(g, p, mo) \in DOMAIN nqc_vals
         THEN nqc_vals[NqcKey(g, p, mo)]
         ELSE IF gen_is_variable(g)
              THEN exceedance_vals[ExcKey(g, p, mo, h)] * GenCapacity(g, p)
              ELSE GenCapacity(g, p)
    ELSE 0

\* a variable generator counted at its capacity, the exceedance value unused
HourlyQC_Nameplate(g, p, mo, h) ==
    IF gen_is_ra_eligible[g]
    THEN IF ~gen_is_variable(g) /\ gen_tech_sod(g) = "Small Hydro"
         THEN nqc_vals[NqcKey(g, p, mo)]
         ELSE GenCapacity(g, p)
    ELSE 0

CalculateHourlyQualifyingCapacities(g, p, mo, h) ==
    IF gen_is_ra_eligible[g]
    THEN IF gen_is_variable(g)
         THEN exceedance_vals[ExcKey(g, p, mo, h)] * GenCapacity(g, p)
         ELSE IF gen_tech_sod(g) = "Small Hydro"
              THEN nqc_vals[NqcKey(g, p, mo)]
              ELSE GenCapacity(g, p)
    ELSE 0

\* CalculateEnergyNQC: system qualifying capacity, storage projects left out
CalculateEnergyNQC(qc, p, mo, h) ==
    SumOver({ g \in GENERATION_PROJECTS : ~gen_is_storage(g) },
            [g \in GENERATION_PROJECTS |-> qc[<<g, p, mo, h>>]])

\* the storage projects left out, the adder alone counted
StorageCapacity_AdderOnly(p, mo) == StorageAdder(p, mo)

CalculateStorageCapacity(p, mo) ==
    SumOver({ g \in GENERATION_PROJECTS : gen_is_storage(g) },
            [g \in GENERATION_PROJECTS |-> GenCapacity(g, p)])
    + StorageAdder(p, mo)

CalculateStorageEnergy(p, mo) ==
    SumOver({ g \in GENERATION_PROJECTS : gen_is_storage(g) },
            [g \in GENERATION_PROJECTS |->
                GenCapacity(g, p) * storage_energy_to_power_ratio(g)])
    + StorageAdder(p, mo) * ADDER_HOURS

\* ---------------------------------------------------------------- build

\* define_components: the expressions are built, or a lookup of an
\* undefined Param value ends the build.
Build ==
    /\ pc = "load"
    /\ IF Missing = {}
       THEN /\ HourlyQC' =
                 [k \in GENERATION_PROJECTS \X PERIODS \X MONTHS \X HOURS |->
                     CalculateHourlyQualifyingCapacities(k[1], k[2], k[3], k[4])]
            /\ EnergyNQC' =
                 [k \in PERIODS \X MONTHS \X HOURS |->
                     CalculateEnergyNQC(HourlyQC', k[1], k[2], k[3])]
            /\ StorageQC' =
                 [k \in PERIODS \X MONTHS |-> CalculateStorageCapacity(k[1], k[2])]
            /\ StorageEnergySOD' =
                 [k \in PERIODS \X MONTHS |-> CalculateStorageEnergy(k[1], k[2])]
            /\ pc' = "built"
            /\ error' = error
       ELSE /\ pc' = "error"
            /\ error' \in Missing
            /\ UNCHANGED exprs
    /\ UNCHANGED <<sets, tables, decisions, objective, box, raised>>

\* load_inputs again from an exceedance table with one value raised, for a
\* fresh build of the expressions.
Rerun ==
    /\ pc = "built"
    /\ raised = NoKey
    /\ \E k \in DOMAIN exceedance_vals :
         \E v \in (exceedance_vals[k] + 1)..MaxExc :
            /\ exceedance_vals' = [exceedance_vals EXCEPT ![k] = v]
            /\ raised' = k
    /\ pc' = "load"
    /\ UNCHANGED <<sets, gen, gen_is_ra_eligible, ra_sod_requirement, ra_sod_cost,
                   nqc_vals, storage_adders, sell_excess_RA, exprs, decisions,
                   objective, box, error>>

\* ----------------------------------------------------- position optimizer

\* A candidate assignment is the four functions ra (NewRA), chg
\* (StorageCharge), dis (StorageDischarge) and st (StorageState).

\* Var(..., within = NonNegativeReals | Reals | Binary)
\* NewRA declared within Reals whatever the option
NewRA_Domain_Reals(ra, p, mo) == TRUE

NewRA_Domain(ra, p, mo) ==
    IF sell_excess_RA = "sell" THEN TRUE ELSE ra[<<p, mo>>] >= 0

Flow_Domain(chg, dis, st, p, mo, h) ==
    /\ chg[<<p, mo, h>>] >= 0
    /\ dis[<<p, mo, h>>] >= 0
    /\ st[<<p, mo, h>>] \in {0, 1}

TotalMonthlyDischarge(dis, p, mo) ==
    SumOver(HOURS, [h \in HOURS |-> dis[<<p, mo, h>>]])

TotalMonthlyCharge(chg, p, mo) ==
    SumOver(HOURS, [h \in HOURS |-> chg[<<p, mo, h>>]])

\* the charge left out of the demand side
RA_Position_NoCharge(ra, chg, dis, p, mo, h) ==
    ra[<<p, mo>>] + dis[<<p, mo, h>>] + EnergyNQC[<<p, mo, h>>]
        >= ra_sod_requirement[<<p, mo, h>>]

RA_Position_Constraint(ra, chg, dis, p, mo, h) ==
    ra[<<p, mo>>] + dis[<<p, mo, h>>] + EnergyNQC[<<p, mo, h>>]
        >= ra_sod_requirement[<<p, mo, h>>] + chg[<<p, mo, h>>]

Storage_Energy_Constraint(dis, p, mo) ==
    TotalMonthlyDischarge(dis, p, mo) <= StorageEnergySOD[<<p, mo>>]

\* the efficiency applied to the discharge instead of the charge
Storage_Charge_Discharge_Inverted(chg, dis, p, mo) ==
    RTE_NUM * TotalMonthlyDischarge(dis, p, mo)
        = RTE_DEN * TotalMonthlyCharge(chg, p, mo)

Storage_Charge_Discharge(chg, dis, p, mo) ==
    RTE_DEN * TotalMonthlyDischarge(dis, p, mo)
        = RTE_NUM * TotalMonthlyCharge(chg, p, mo)

Hourly_Discharge_Constriant(dis, p, mo, h) ==
    dis[<<p, mo, h>>] <= StorageQC[<<p, mo>>]

Hourly_Charge_Constriant(chg, p, mo, h) ==
    chg[<<p, mo, h>>] <= StorageQC[<<p, mo>>]

\* the complement of the state multiplied in, as in the discharging constraint
Charging_State_Complement(st, chg, p, mo, h) ==
    (1 - st[<<p, mo, h>>]) * chg[<<p, mo, h>>] = 0

Charging_State_Constraint(st, chg, p, mo, h) ==
    st[<<p, mo, h>>] * chg[<<p, mo, h>>] = 0

\* the state itself multiplied in, as in the charging constraint
Discharging_State_Plain(st, dis, p, mo, h) ==
    st[<<p, mo, h>>] * dis[<<p, mo, h>>] = 0

Discharging_State_Constraint(st, dis, p, mo, h) ==
    (1 - st[<<p, mo, h>>]) * dis[<<p, mo, h>>] = 0

\* The two state constraints as sums of monomials in the decision variables,
\* StorageState * StorageCharge and
\* StorageDischarge - StorageState * StorageDischarge.
Charging_State_Terms == { <<"StorageState", "StorageCharge">> }
Discharging_State_Terms ==
    { <<"StorageDischarge">>, <<"StorageState", "StorageDischarge">> }

\* everything the model asks of hour h of (p, mo)
HourOK(ra, chg, dis, st, p, mo, h) ==
    /\ Flow_Domain(chg, dis, st, p, mo, h)
    /\ RA_Position_Constraint(ra, chg, dis, p, mo, h)
    /\ Hourly_Discharge_Constriant(dis, p, mo, h)
    /\ Hourly_Charge_Constriant(chg, p, mo, h)
    /\ Charging_State_Constraint(st, chg, p, mo, h)
    /\ Discharging_State_Constraint(st, dis, p, mo, h)

\* everything the model asks of the month (p, mo) as a whole
MonthOK(chg, dis, p, mo) ==
    /\ Storage_Energy_Constraint(dis, p, mo)
    /\ Storage_Charge_Discharge(chg, dis, p, mo)

\* ------------------------------------------------------------ cost rollup

\* the resale value, which defaults to 0, priced in place of the cost
MonthlyCost_Unpriced(ra, p, mo) == ra[<<p, mo>>] * KW_PER_MW * 0

MonthlyRAOpenPositionCost(ra, p, mo) ==
    ra[<<p, mo>>] * KW_PER_MW * ra_sod_cost[<<p, mo>>]

RAOpenPositionCost(ra, p) ==
    SumOver(MONTHS, [mo \in MONTHS |-> MonthlyRAOpenPositionCost(ra, p, mo)])

\* the module's term of the enclosing objective
TotalCost(ra) ==
    SumOver(PERIODS, [p \in PERIODS |-> RAOpenPositionCost(ra, p)])

\* ----------------------------------------------------------------- solver

\* The solver is outside the module.  It is modelled by what it is handed:
\* it may return any assignment on the candidate grid that satisfies the
\* domains and constraints, and the objective value it reports is the least
\* cost among them.

FlowGrid == { box.step * k : k \in (0 - box.neg)..box.flows }
RAGrid == { box.step * k : k \in (0 - box.ra)..box.ra }
Cells == FlowGrid \X FlowGrid \X {0, 1}

BLOCKS == PERIODS \X MONTHS

Before(a, b) == a[1] < b[1] \/ (a[1] = b[1] /\ a[2] <= b[2])
First(S) == CHOOSE a \in S : \A b \in S : Before(a, b)

\* the month being assigned, and its next hour
OpenBlocks == BLOCKS \ DOMAIN NewRA
CurBlock ==
    First({ b \in DOMAIN NewRA :
              \E h \in HOURS : <<b[1], b[2], h>> \notin DOMAIN StorageState })
NextHour(b) ==
    CHOOSE h \in HOURS :
        /\ <<b[1], b[2], h>> \notin DOMAIN StorageState
        /\ \A g \in HOURS : g < h => <<b[1], b[2], g>> \in DOMAIN StorageState

\* the cells hour h of (p, mo) admits when procurement is n
OKCells(n, p, mo, h) ==
    { c \in Cells :
        HourOK(<<p, mo>> :> n, <<p, mo, h>> :> c[1], <<p, mo, h>> :> c[2],
               <<p, mo, h>> :> c[3], p, mo, h) }

\* the <<chg, dis>> fillings of the hours hs of (p, mo), each hour admitted
RECURSIVE Fills(_, _, _, _)
Fills(n, p, mo, hs) ==
    IF hs = {} THEN { <<Empty, Empty>> }
    ELSE LET h == CHOOSE x \in hs : \A y \in hs : y <= x
         IN  { <<rc[1][1] @@ (<<p, mo, h>> :> rc[2][1]),
                 rc[1][2] @@ (<<p, mo, h>> :> rc[2][2])>> :
                 rc \in Fills(n, p, mo, hs \ {h}) \X OKCells(n, p, mo, h) }

\* procurement values of (p, mo) that some schedule of the storage admits
FeasibleRA(p, mo) ==
    { n \in RAGrid :
        /\ NewRA_Domain(<<p, mo>> :> n, p, mo)
        /\ \E f \in Fills(n, p, mo, HOURS) : MonthOK(f[1], f[2], p, mo) }

MinOf(S) == CHOOSE x \in S : \A y \in S : x <= y

\* the least monthly cost among the procurement values ns
MinMonthlyCost(ns, p, mo) ==
    MinOf({ MonthlyRAOpenPositionCost(<<p, mo>> :> n, p, mo) : n \in ns })

\* The months share no variable and no constraint, so the least total is the
\* sum of the least monthly costs.
Solve ==
    /\ pc = "built"
    /\ \E feasible \in { [b \in BLOCKS |-> FeasibleRA(b[1], b[2])] } :
         IF \A b \in BLOCKS : feasible[b] # {}
         THEN /\ objective' =
                   SumOver(BLOCKS,
                           [b \in BLOCKS |-> MinMonthlyCost(feasible[b], b[1], b[2])])
              /\ pc' = "ra"
         ELSE /\ objective' = objective
              /\ pc' = "infeasible"
    /\ UNCHANGED <<sets, tables, exprs, decisions, box, error, raised>>

\* the solver sets NewRA of the next month to a value of its domain
ChooseNewRA ==
    /\ pc = "ra"
    /\ \E n \in RAGrid :
         LET b == First(OpenBlocks)
             ra == NewRA @@ (b :> n)
         IN  /\ NewRA_Domain(ra, b[1], b[2])
             /\ NewRA' = ra
    /\ pc' = "hour"
    /\ UNCHANGED <<sets, tables, exprs, StorageCharge, StorageDischarge,
                   StorageState, objective, box, error, raised>>

\* the solver sets the storage variables of the next hour to values the
\* hour's constraints admit; with the last hour of the month the monthly
\* constraints must admit the month, and with the last month the assignment
\* is one the model accepts
ProposeHour ==
    /\ pc = "hour"
    /\ \E b \in {CurBlock} : \E h \in {NextHour(b)} :
       \E c \in OKCells(NewRA[b], b[1], b[2], h) :
       \E chg \in {StorageCharge @@ (<<b[1], b[2], h>> :> c[1])} :
       \E dis \in {StorageDischarge @@ (<<b[1], b[2], h>> :> c[2])} :
          /\ (\A g \in HOURS : g <= h) => MonthOK(chg, dis, b[1], b[2])
          /\ StorageCharge' = chg
          /\ StorageDischarge' = dis
          /\ StorageState' = StorageState @@ (<<b[1], b[2], h>> :> c[3])
          /\ pc' = IF \E g \in HOURS : g > h THEN "hour"
                   ELSE IF OpenBlocks # {} THEN "ra"
                   ELSE "accepted"
    /\ UNCHANGED <<sets, tables, exprs, NewRA, objective, box, error, raised>>

\* ------------------------------------------------------------ initial states

Fresh ==
    /\ HourlyQC = Empty /\ EnergyNQC = Empty
    /\ StorageQC = Empty /\ StorageEnergySOD = Empty
    /\ NewRA = Empty /\ StorageCharge = Empty
    /\ StorageDischarge = Empty /\ StorageState = Empty
    /\ objective = Unset /\ pc = "load" /\ error = NoLookup /\ raised = NoKey

Generator(variable, storage, tech, region, rid, cap, ratio) ==
    [is_variable |-> variable, is_storage |-> storage, tech |-> tech,
     region |-> region, rid |-> rid, cap |-> [p \in {1} |-> cap], ratio |-> ratio]

\* One month of NumHours hours, a firm generator of MaxFlow MW and a
\* battery: none, one of MaxFlow MW with as many MWh, one with no energy,
\* one whose energy is the adder's, one a step short of the charge that a
\* discharge of MaxFlow - 1 takes.  Each hour requires a step less than the
\* firm capacity or almost twice as much.  The capacity product is bought
\* at a price, or sold at a price or for nothing.
Batteries ==
    { <<0, 1, Empty>>, <<MaxFlow, 1, Empty>>, <<MaxFlow, 0, Empty>>,
      <<MaxFlow, 0, [k \in {1} \X {1} |-> 1]>>,
      <<MaxFlow - 1, 1, [k \in {1} \X {1} |-> 0]>> }

Init ==
    /\ PERIODS = {1} /\ MONTHS = {1} /\ HOURS = 1..NumHours
    /\ GENERATION_PROJECTS = {"firm", "batt"}
    /\ \E s \in Batteries :
         /\ gen = [g \in {"firm", "batt"} |->
                     IF g = "firm"
                     THEN Generator(FALSE, FALSE, "Geothermal", "North", "firm", MaxFlow, 0)
                     ELSE Generator(FALSE, TRUE, "Battery", "North", "batt", s[1], s[2])]
         /\ storage_adders = s[3]
    /\ gen_is_ra_eligible = [g \in {"firm", "batt"} |-> TRUE]
    /\ ra_sod_requirement \in [{1} \X {1} \X (1..NumHours) -> {MaxFlow - 1, 2 * MaxFlow - 1}]
    /\ \E o \in { <<"none", 1>>, <<"sell", 1>>, <<"sell", 0>> } :
         /\ sell_excess_RA = o[1]
         /\ ra_sod_cost = [k \in {1} \X {1} |-> o[2]]
    /\ exceedance_vals = Empty
    /\ nqc_vals = Empty
    /\ box = [step |-> 1, neg |-> 1, flows |-> MaxFlow, ra |-> MaxRA]
    /\ Fresh

Next == Build \/ Solve \/ ChooseNewRA \/ ProposeHour

\* One month of a 3-hour day, one generator and no storage: the 80 MW plant
\* against a requirement of 100 MW in every hour, and its neighbours.
InitNoStorage ==
    /\ PERIODS = {1} /\ MONTHS = {1} /\ HOURS = 1..3
    /\ GENERATION_PROJECTS = {"firm"}
    /\ \E t \in {"Geothermal", "Small Hydro"}, c \in {40, 80, 120} :
         gen = [g \in {"firm"} |-> Generator(FALSE, FALSE, t, "North", "firm", c, 0)]
    /\ gen_is_ra_eligible \in [{"firm"} -> BOOLEAN]
    /\ ra_sod_requirement \in [{1} \X {1} \X (1..3) -> {60, 100}]
    /\ ra_sod_cost \in [{1} \X {1} -> {1, 2}]
    /\ exceedance_vals = Empty
    /\ nqc_vals = [k \in {<<1, 1, "firm">>} |-> 60]
    /\ storage_adders \in { Empty, [k \in {1} \X {1} |-> 0] }
    /\ sell_excess_RA = "none"
    /\ box = [step |-> 20, neg |-> 0, flows |-> MaxFlow, ra |-> MaxRA]
    /\ Fresh

SpecNoStorage == InitNoStorage /\ [][Next]_vars

\* One month of a 3-hour day: the 80 MW plant, a battery of 20 MW and
\* 40 MWh, and a requirement of 80 MW but for the 140 MW of hour 2.
InitArbitrage ==
    /\ PERIODS = {1} /\ MONTHS = {1} /\ HOURS = 1..3
    /\ GENERATION_PROJECTS = {"firm", "batt"}
    /\ gen = [g \in {"firm", "batt"} |->
                IF g = "firm"
                THEN Generator(FALSE, FALSE, "Geothermal", "North", "firm", 80, 0)
                ELSE Generator(FALSE, TRUE, "Battery", "North", "batt", 20, 2)]
    /\ gen_is_ra_eligible \in [{"firm", "batt"} -> {TRUE}]
    /\ ra_sod_requirement = [k \in {1} \X {1} \X (1..3) |-> IF k[3] = 2 THEN 140 ELSE 80]
    /\ ra_sod_cost \in [{1} \X {1} -> {1, 2, 3}]
    /\ exceedance_vals = Empty
    /\ nqc_vals = Empty
    /\ storage_adders \in { Empty, [k \in {1} \X {1} |-> 0] }
    /\ sell_excess_RA = "none"
    /\ box = [step |-> 5, neg |-> 0, flows |-> MaxFlow, ra |-> 2 * MaxRA + 1]
    /\ Fresh

SpecArbitrage == InitArbitrage /\ [][Next]_vars

Spec == Init /\ [][Next]_vars

\* Capacity accounting: two generators over two months of two hours.  g1
\* takes every combination of flags, technology and capacity; g2 is a solar
\* plant, a hydro plant or a battery.  Each table is complete, or one key
\* of one table is missing.
TECHS == {"Solar", "Small Hydro", "Geothermal"}
AcctExcKeys == {1} \X {1, 2} \X {1, 2} \X TECHS \X {"North"}
AcctNqcKeys == {1} \X {1, 2} \X {"g1", "g2"}
AcctHourKeys == {1} \X {1, 2} \X {1, 2}
AcctMonthKeys == {1} \X {1, 2}

DefectKeys(name) ==
    CASE name = "exceedance_vals" -> AcctExcKeys
      [] name = "nqc_vals" -> AcctNqcKeys
      [] name = "ra_sod_requirement" -> AcctHourKeys
      [] name = "ra_sod_cost" -> AcctMonthKeys
      [] name = "storage_adders" -> AcctMonthKeys
      [] OTHER -> {NoKey}

Without(keys, name, d) == IF d[1] = name THEN keys \ {d[2]} ELSE keys

InitAcct ==
    /\ PERIODS = {1} /\ MONTHS = {1, 2} /\ HOURS = {1, 2}
    /\ GENERATION_PROJECTS = {"g1", "g2"}
    /\ \E v \in BOOLEAN, s \in BOOLEAN, t \in TECHS, c \in 0..MaxCap :
       \E o \in { Generator(TRUE, FALSE, "Solar", "North", "g2", 1, 0),
                  Generator(FALSE, FALSE, "Small Hydro", "North", "g2", 2, 0),
                  Generator(FALSE, TRUE, "Battery", "North", "g2", 1, 2) } :
         gen = [g \in {"g1", "g2"} |->
                  IF g = "g1" THEN Generator(v, s, t, "North", "g1", c, 2) ELSE o]
    /\ gen_is_ra_eligible \in
         { [g \in {"g2"} |-> TRUE] } \cup [{"g1", "g2"} -> BOOLEAN]
    /\ \E name \in {"-", "exceedance_vals", "nqc_vals", "ra_sod_requirement",
                     "ra_sod_cost", "storage_adders"} :
       \E key \in DefectKeys(name) : \E d \in {Lookup(name, key)} :
         /\ exceedance_vals =
              [k \in Without(AcctExcKeys, "exceedance_vals", d) |->
                  k[2] + k[3] - 2 + (IF k[4] = "Solar" THEN 0 ELSE 1)]
         /\ nqc_vals =
              [k \in Without(AcctNqcKeys, "nqc_vals", d) |->
                  k[2] + (IF k[3] = "g1" THEN 2 ELSE 4)]
         /\ ra_sod_requirement =
              [k \in Without(AcctHourKeys, "ra_sod_requirement", d) |-> k[2] + k[3]]
         /\ ra_sod_cost = [k \in Without(AcctMonthKeys, "ra_sod_cost", d) |-> k[2]]
         /\ storage_adders = [k \in Without(AcctMonthKeys, "storage_adders", d) |-> k[2]]
    /\ sell_excess_RA = "none"
    /\ box = [step |-> 1, neg |-> 0, flows |-> 0, ra |-> 0]
    /\ Fresh

NextAcct == Build \/ Rerun

SpecAcct == InitAcct /\ [][NextAcct]_vars

\* ------------------------------------------------------------------ claims

Eligible(g) == g \in DOMAIN gen_is_ra_eligible /\ gen_is_ra_eligible[g]
Capacity(g, p) == gen[g].cap[p]
Exceedance(g, p, mo, h) ==
    exceedance_vals[<<p, mo, h, gen[g].tech, gen[g].region>>]
MonthlyNqc(g, p, mo) == nqc_vals[<<p, mo, gen[g].rid>>]

\* C4: once the expressions are built, HourlyQC of every generator and
\* every (p, mo, h) is 0 for a generator that is not RA-eligible, whatever
\* its technology, flags and capacity; else capacity x exceedance value for
\* variable generation, Small Hydro or not; else the monthly NQC value for
\* Small Hydro, the same in every hour of the month; else the capacity.
C4_HourlyQCPolicy ==
    pc = "built" =>
        \A g \in GENERATION_PROJECTS, p \in PERIODS, mo \in MONTHS, h \in HOURS :
            HourlyQC[<<g, p, mo, h>>] =
                CASE ~Eligible(g) -> 0
                  [] Eligible(g) /\ gen[g].is_variable ->
                        Capacity(g, p) * Exceedance(g, p, mo, h)
                  [] Eligible(g) /\ ~gen[g].is_variable /\ gen[g].tech = "Small Hydro" ->
                        MonthlyNqc(g, p, mo)
                  [] OTHER -> Capacity(g, p)

\* an eligible generator that is variable and Small Hydro, counted by its
\* exceedance value where the monthly NQC value would differ
C4_Witness ==
    /\ pc = "built"
    /\ Eligible("g1") /\ gen["g1"].is_variable /\ gen["g1"].tech = "Small Hydro"
    /\ HourlyQC[<<"g1", 1, 2, 2>>] = Capacity("g1", 1) * Exceedance("g1", 1, 2, 2)
    /\ HourlyQC[<<"g1", 1, 2, 2>>] # MonthlyNqc("g1", 1, 2)
    /\ ~Eligible("g2") /\ HourlyQC[<<"g2", 1, 1, 1>>] = 0

\* the generators whose exceedance value is the one under key k
Reads(g, k) ==
    /\ gen[g].is_variable
    /\ <<k[1], k[2], k[3], gen[g].tech, gen[g].region>> = k

Counted(g, k) ==
    /\ Reads(g, k)
    /\ Eligible(g)
    /\ ~gen[g].is_storage
    /\ Capacity(g, k[1]) > 0

\* the build that follows a rerun with the exceedance value of key k raised
RaisedBuild == pc = "load" /\ raised # NoKey /\ pc' = "built"

\* C5 as stated: raising the exceedance value of any variable generator for
\* (p, mo, h), all else fixed, strictly increases EnergyNQC[p, mo, h].
C5_AnyVariableGenerator ==
    [][ RaisedBuild =>
          \A g \in GENERATION_PROJECTS :
              Reads(g, raised) =>
                  EnergyNQC'[<<raised[1], raised[2], raised[3]>>]
                      > EnergyNQC[<<raised[1], raised[2], raised[3]>>] ]_vars

\* C5, amended: raising the exceedance value of a variable generator for
\* (p, mo, h), all else fixed, strictly increases EnergyNQC[p, mo, h] when
\* the generator is RA-eligible, is not a storage project and has a positive
\* capacity in p; in every case EnergyNQC[p, mo, h] does not decrease.
C5_Monotone ==
    [][ RaisedBuild =>
          LET k == <<raised[1], raised[2], raised[3]>>
          IN  /\ EnergyNQC'[k] >= EnergyNQC[k]
              /\ (\E g \in GENERATION_PROJECTS : Counted(g, raised))
                    => EnergyNQC'[k] > EnergyNQC[k] ]_vars

\* a build after the exceedance value of a counted generator was raised
C5_Witness ==
    /\ pc = "built"
    /\ raised # NoKey
    /\ Counted("g1", raised)
    /\ EnergyNQC[<<raised[1], raised[2], raised[3]>>] > 0

\* the keys the build reads from each table
ReadsEligibility == { <<g>> : g \in GENERATION_PROJECTS }
ReadsExceedance ==
    { <<x[2], x[3], x[4], gen[x[1]].tech, gen[x[1]].region>> :
        x \in { y \in GENERATION_PROJECTS \X PERIODS \X MONTHS \X HOURS :
                  Eligible(y[1]) /\ gen[y[1]].is_variable } }
ReadsNqc ==
    { <<x[2], x[3], gen[x[1]].rid>> :
        x \in { y \in GENERATION_PROJECTS \X PERIODS \X MONTHS :
                  /\ Eligible(y[1]) /\ ~gen[y[1]].is_variable
                  /\ gen[y[1]].tech = "Small Hydro" } }
ReadsRequirement == PERIODS \X MONTHS \X HOURS
ReadsMonthly == PERIODS \X MONTHS

Absent(name, key) ==
    CASE name = "gen_is_ra_eligible" ->
            key \in ReadsEligibility /\ key[1] \notin DOMAIN gen_is_ra_eligible
      [] name = "exceedance_vals" ->
            key \in ReadsExceedance /\ key \notin DOMAIN exceedance_vals
      [] name = "nqc_vals" -> key \in ReadsNqc /\ key \notin DOMAIN nqc_vals
      [] name = "ra_sod_requirement" ->
            key \in ReadsRequirement /\ key \notin DOMAIN ra_sod_requirement
      [] name = "ra_sod_cost" -> key \in ReadsMonthly /\ key \notin DOMAIN ra_sod_cost
      [] OTHER -> FALSE

NoneAbsent ==
    /\ \A k \in ReadsEligibility : ~Absent("gen_is_ra_eligible", k)
    /\ \A k \in ReadsExceedance : ~Absent("exceedance_vals", k)
    /\ \A k \in ReadsNqc : ~Absent("nqc_vals", k)
    /\ \A k \in ReadsRequirement : ~Absent("ra_sod_requirement", k)
    /\ \A k \in ReadsMonthly : ~Absent("ra_sod_cost", k)

AdderAbsent == \E k \in ReadsMonthly : k \notin DOMAIN storage_adders

\* C9 as stated: a key the build reads that is absent from any of the six
\* tables, the storage adders among them, ends the build in an error.
C9_EveryTableFailsFast ==
    (~NoneAbsent \/ AdderAbsent) => pc \in {"load", "error"}

\* C9, amended: a key the build reads that is absent from the RA
\* eligibility, hourly requirement, exceedance, monthly NQC or RA cost table
\* ends the build in an error that names a table and an absent key of it,
\* and no expression is built; a key absent from the storage adder table,
\* which declares the default 0, is read as 0 and does not end the build.
C9_FailFast ==
    /\ ~NoneAbsent => pc \in {"load", "error"}
    /\ pc = "error" => /\ Absent(error[1], error[2])
                       /\ HourlyQC = Empty /\ EnergyNQC = Empty
                       /\ StorageQC = Empty /\ StorageEnergySOD = Empty
    /\ pc = "built" =>
          \A k \in ReadsMonthly :
              k \notin DOMAIN storage_adders =>
                  StorageQC[k] =
                      SumOver({ g \in GENERATION_PROJECTS : gen[g].is_storage },
                              [g \in GENERATION_PROJECTS |-> Capacity(g, k[1])])

\* a build ended by the exceedance value an eligible variable generator lacks
C9_Witness ==
    /\ pc = "error"
    /\ error[1] = "exceedance_vals"
    /\ error[2] \notin DOMAIN exceedance_vals
    /\ error[2] \in ReadsExceedance

\* the solver returned an assignment the model accepts
Accepted == pc = "accepted"
\* ... and none the model accepts costs less
Optimal == Accepted /\ TotalCost(NewRA) = objective

Index == PERIODS \X MONTHS \X HOURS
Month(k) == <<k[1], k[2]>>
Discharged(b) == SumOver(HOURS, [h \in HOURS |-> StorageDischarge[<<b[1], b[2], h>>]])
Charged(b) == SumOver(HOURS, [h \in HOURS |-> StorageCharge[<<b[1], b[2], h>>]])

\* C1: in every accepted assignment, for every (p, mo, h),
\* NewRA + StorageDischarge + EnergyNQC >= ra_sod_requirement + StorageCharge.
C1_AdequacyBalance ==
    Accepted =>
        \A k \in Index :
            NewRA[Month(k)] + StorageDischarge[k] + EnergyNQC[k]
                >= ra_sod_requirement[k] + StorageCharge[k]

\* an accepted assignment with an hour that charges and leaves no slack
C1_Witness ==
    /\ Accepted
    /\ \E k \in Index :
         /\ StorageCharge[k] > 0
         /\ NewRA[Month(k)] + StorageDischarge[k] + EnergyNQC[k]
                = ra_sod_requirement[k] + StorageCharge[k]

\* C2: in every accepted assignment no hour both charges and discharges;
\* StorageState = 1 forces StorageCharge = 0 and StorageState = 0 forces
\* StorageDischarge = 0.
C2_MutualExclusivity ==
    Accepted =>
        \A k \in Index :
            /\ ~(StorageCharge[k] > 0 /\ StorageDischarge[k] > 0)
            /\ StorageState[k] = 1 => StorageCharge[k] = 0
            /\ StorageState[k] = 0 => StorageDischarge[k] = 0

\* an accepted assignment that charges in one hour and discharges in another
C2_Witness ==
    /\ Accepted
    /\ \E k \in Index : StorageState[k] = 0 /\ StorageCharge[k] > 0
    /\ \E k \in Index : StorageState[k] = 1 /\ StorageDischarge[k] > 0

\* C3: in every accepted assignment, for every (p, mo), the discharge summed
\* over the hours is 0.8 times the charge summed over the hours and is at
\* most StorageEnergySOD[p, mo].
C3_MonthlyEnergy ==
    Accepted =>
        \A b \in BLOCKS :
            /\ 10 * Discharged(b) = 8 * Charged(b)
            /\ Discharged(b) <= StorageEnergySOD[b]

\* an accepted assignment that moves energy through the storage
C3_Witness ==
    /\ Accepted
    /\ \E b \in BLOCKS : Discharged(b) > 0 /\ Charged(b) > Discharged(b)

\* every hour of (p, mo) requires less than the firm capacity
Surplus(b) ==
    \A h \in HOURS : ra_sod_requirement[<<b[1], b[2], h>>] < EnergyNQC[<<b[1], b[2], h>>]

\* C8 as stated: with the option 'none' NewRA >= 0 in every accepted
\* assignment; with 'sell', in a month whose requirement is below EnergyNQC
\* in every hour, the optimal NewRA and its monthly cost are negative.
C8_SellAlwaysEarns ==
    /\ (Accepted /\ sell_excess_RA = "none") => \A b \in BLOCKS : NewRA[b] >= 0
    /\ (Optimal /\ sell_excess_RA = "sell") =>
          \A b \in BLOCKS :
              Surplus(b) => /\ NewRA[b] < 0
                            /\ NewRA[b] * 1000 * ra_sod_cost[b] < 0

\* C8, amended: with the option 'none' NewRA >= 0 in every accepted
\* assignment; with 'sell', in a month whose requirement is below EnergyNQC
\* in every hour and whose ra_sod_cost is positive, the optimal NewRA and its
\* monthly cost NewRA x 1000 x ra_sod_cost are negative.
C8_SellToggle ==
    /\ (Accepted /\ sell_excess_RA = "none") => \A b \in BLOCKS : NewRA[b] >= 0
    /\ (Optimal /\ sell_excess_RA = "sell") =>
          \A b \in BLOCKS :
              (Surplus(b) /\ ra_sod_cost[b] > 0) =>
                  /\ NewRA[b] < 0
                  /\ NewRA[b] * 1000 * ra_sod_cost[b] < 0

\* an optimal sale of the surplus at a positive price
C8_Witness ==
    /\ Optimal
    /\ sell_excess_RA = "sell"
    /\ \E b \in BLOCKS : Surplus(b) /\ ra_sod_cost[b] > 0 /\ NewRA[b] < 0

MaxOf(S) == CHOOSE x \in S : \A y \in S : y <= x

\* the largest shortfall of the firm capacity over the hours of the month
Shortfall(b) ==
    MaxOf({ ra_sod_requirement[<<b[1], b[2], h>>] - EnergyNQC[<<b[1], b[2], h>>] :
              h \in HOURS })

NoFlow(b) ==
    \A h \in HOURS : /\ StorageCharge[<<b[1], b[2], h>>] = 0
                     /\ StorageDischarge[<<b[1], b[2], h>>] = 0

\* the scenario: requirement 100 MW in each of three hours, one eligible
\* generator of 80 MW, not variable, not storage and counted at its capacity
Scenario80 ==
    /\ HOURS = 1..3 /\ GENERATION_PROJECTS = {"firm"}
    /\ gen_is_ra_eligible["firm"] /\ ~gen["firm"].is_variable
    /\ ~gen["firm"].is_storage /\ gen["firm"].tech # "Small Hydro"
    /\ gen["firm"].cap[1] = 80
    /\ \A h \in HOURS : ra_sod_requirement[<<1, 1, h>>] = 100

\* C6: in the default mode, where ra_sod_cost is positive and StorageQC is
\* 0, every optimal assignment has StorageCharge = StorageDischarge = 0 in
\* every hour and NewRA = max(0, max over h of (requirement - EnergyNQC));
\* in the scenario NewRA = 20.
C6_NoStorageSizing ==
    (Optimal /\ sell_excess_RA = "none") =>
        /\ \A b \in BLOCKS :
              (ra_sod_cost[b] > 0 /\ StorageQC[b] = 0) =>
                  /\ NoFlow(b)
                  /\ NewRA[b] = MaxOf({0, Shortfall(b)})
        /\ Scenario80 => NewRA[<<1, 1>>] = 20

\* the scenario solved: 20 MW procured and the storage variables at 0
C6_Witness ==
    /\ Optimal /\ Scenario80
    /\ sell_excess_RA = "none" /\ ra_sod_cost[<<1, 1>>] > 0 /\ StorageQC[<<1, 1>>] = 0
    /\ NewRA[<<1, 1>>] = 20 /\ NoFlow(<<1, 1>>)

\* the scenario: the 80 MW generator, a battery of 20 MW and 40 MWh and no
\* adder, requirement 80, 140, 80 MW, a positive cost, the default mode
ScenarioArbitrage ==
    /\ HOURS = 1..3 /\ GENERATION_PROJECTS = {"firm", "batt"}
    /\ gen_is_ra_eligible["firm"] /\ ~gen["firm"].is_variable
    /\ ~gen["firm"].is_storage /\ gen["firm"].tech # "Small Hydro"
    /\ gen["firm"].cap[1] = 80
    /\ gen["batt"].is_storage /\ gen["batt"].cap[1] = 20 /\ gen["batt"].ratio = 2
    /\ \A k \in DOMAIN storage_adders : storage_adders[k] = 0
    /\ ra_sod_requirement[<<1, 1, 1>>] = 80
    /\ ra_sod_requirement[<<1, 1, 2>>] = 140
    /\ ra_sod_requirement[<<1, 1, 3>>] = 80
    /\ ra_sod_cost[<<1, 1>>] > 0
    /\ sell_excess_RA = "none"

\* C7: in the scenario every optimal assignment charges in hours 1 and 3
\* only, discharges in hour 2 only, discharges 0.8 times what it charges and
\* at most the 40 MWh, and procures less than the 60 MW needed without
\* storage.
C7_Arbitrage ==
    (Optimal /\ ScenarioArbitrage) =>
        /\ \A h \in HOURS : StorageCharge[<<1, 1, h>>] > 0 => h \in {1, 3}
        /\ \A h \in HOURS : StorageDischarge[<<1, 1, h>>] > 0 => h = 2
        /\ StorageDischarge[<<1, 1, 2>>] > 0
        /\ 10 * Discharged(<<1, 1>>) = 8 * Charged(<<1, 1>>)
        /\ Discharged(<<1, 1>>) <= 40
        /\ NewRA[<<1, 1>>] < 60

\* the scenario solved: 40 MW procured, 20 MW discharged at the peak, 25 MW
\* charged over hours 1 and 3
C7_Witness ==
    /\ Optimal /\ ScenarioArbitrage
    /\ NewRA[<<1, 1>>] = 40
    /\ StorageDischarge[<<1, 1, 2>>] = 20
    /\ StorageCharge[<<1, 1, 1>>] = 10 /\ StorageCharge[<<1, 1, 3>>] = 15

\* the pair of linear constraints with M = StorageQC[p, mo]
BigM_Charge(st, chg, p, mo, h) ==
    chg[<<p, mo, h>>] <= StorageQC[<<p, mo>>] * (1 - st[<<p, mo, h>>])
BigM_Discharge(st, dis, p, mo, h) ==
    dis[<<p, mo, h>>] <= StorageQC[<<p, mo>>] * st[<<p, mo, h>>]

\* what the module declares for the storage variables of hour k, at cell c
ProductForm(k, c) ==
    /\ Flow_Domain(k :> c[1], k :> c[2], k :> c[3], k[1], k[2], k[3])
    /\ Charging_State_Constraint(k :> c[3], k :> c[1], k[1], k[2], k[3])
    /\ Discharging_State_Constraint(k :> c[3], k :> c[2], k[1], k[2], k[3])
    /\ Hourly_Charge_Constriant(k :> c[1], k[1], k[2], k[3])
    /\ Hourly_Discharge_Constriant(k :> c[2], k[1], k[2], k[3])

BigMForm(k, c) ==
    /\ c[1] >= 0 /\ c[2] >= 0 /\ c[3] \in {0, 1}
    /\ BigM_Charge(k :> c[3], k :> c[1], k[1], k[2], k[3])
    /\ BigM_Discharge(k :> c[3], k :> c[2], k[1], k[2], k[3])

SameAcceptance ==
    \A k \in Index : \A c \in Cells : ProductForm(k, c) <=> BigMForm(k, c)

Degree(terms) == MaxOf({ Len(t) : t \in terms })

\* the cell an accepted assignment gives hour k
Cell(k) == <<StorageCharge[k], StorageDischarge[k], StorageState[k]>>

====
